---------------------------- MODULE Spec2Model ----------------------------
(***************************************************************************)
(* A model of the sports-odds backend: the bookmaker registry              *)
(* (bookmaker.py), the store-backed read endpoints (main.py) and the       *)
(* upstream odds table (routes_odds_table.py).                             *)
(*                                                                         *)
(* Conventions                                                             *)
(*   - a Python str is a sequence of code points (so that strip(),        *)
(*     lower() and the ordering of strings are computed, not assumed);     *)
(*   - an Optional value is a sequence of length at most one: << >> is     *)
(*     None / SQL NULL / an absent JSON member and <<v>> is the value v;   *)
(*   - a DECIMAL of the store is an integer count of thousandths;          *)
(*   - a Python float is an IEEE-754 binary64 value <<sign, e, hi, lo>>   *)
(*     (see the section on floats).                                        *)
(***************************************************************************)
EXTENDS Integers, Sequences, FiniteSets, TLC

VARIABLES
    store,      \* the rows of dbo.AFL_2025_odds (owned by an external writer)
    now,        \* the clock read by GETDATE()
    req,        \* the call or HTTP request handled last
    resp        \* what that call returned

vars == <<store, now, req, resp>>

None == << >>
Some(v) == <<v>>

\* Python truthiness of an Optional[str]: None and "" are falsy.
TruthyStr(o) == o # None /\ o[1] # << >>

(***************************************************************************)
(* Strings                                                                 *)
(***************************************************************************)

\* The characters str.strip() removes (str.isspace, within ASCII).
WhitespaceChars == {9, 10, 11, 12, 13, 28, 29, 30, 31, 32}

LowerChar(c) == IF c \in 65..90 THEN c + 32 ELSE c

UpperChar(c) == IF c \in 97..122 THEN c - 32 ELSE c

Lower(s) == [i \in 1..Len(s) |-> LowerChar(s[i])]

RECURSIVE LStrip(_)
LStrip(s) ==
    IF s # << >> /\ Head(s) \in WhitespaceChars THEN LStrip(Tail(s)) ELSE s

RECURSIVE RStrip(_)
RStrip(s) ==
    IF s # << >> /\ s[Len(s)] \in WhitespaceChars
    THEN RStrip(SubSeq(s, 1, Len(s) - 1))
    ELSE s

Strip(s) == RStrip(LStrip(s))

\* s < t in Python's ordering of str (by code point, a prefix first).
RECURSIVE StrLess(_, _)
StrLess(s, t) ==
    IF t = << >> THEN FALSE
    ELSE IF s = << >> THEN TRUE
    ELSE IF Head(s) # Head(t) THEN Head(s) < Head(t)
    ELSE StrLess(Tail(s), Tail(t))

(***************************************************************************)
(* bookmaker.py                                                            *)
(***************************************************************************)

BOOKMAKER_URLS ==
      (<<98, 101, 116, 114, 105, 103, 104, 116>> :> "https://www.betright.com.au/")                              \* betright
   @@ (<<98, 101, 116, 102, 97, 105, 114, 95, 101, 120, 95, 97, 117>> :> "https://www.betfair.com.au/exchange/") \* betfair_ex_au
   @@ (<<98, 101, 116, 114>> :> "https://www.betr.com.au/")                                                      \* betr
   @@ (<<98, 111, 111, 109, 98, 101, 116>> :> "https://www.boombet.com.au/")                                     \* boombet
   @@ (<<108, 97, 100, 98, 114, 111, 107, 101, 115>> :> "https://www.ladbrokes.com.au/")                         \* ladbrokes
   @@ (<<110, 101, 100, 115>> :> "https://www.neds.com.au/")                                                     \* neds
   @@ (<<112, 108, 97, 121, 117, 112>> :> "https://www.playup.com.au/")                                          \* playup
   @@ (<<112, 111, 105, 110, 116, 115, 98, 101, 116, 97, 117>> :> "https://pointsbet.com.au/")                   \* pointsbetau
   @@ (<<115, 112, 111, 114, 116, 115, 98, 101, 116>> :> "https://www.sportsbet.com.au/")                        \* sportsbet
   @@ (<<116, 97, 98>> :> "https://www.tab.com.au/")                                                             \* tab
   @@ (<<116, 97, 98, 116, 111, 117, 99, 104>> :> "https://www.tabtouch.com.au/")                                \* tabtouch
   @@ (<<117, 110, 105, 98, 101, 116>> :> "https://www.unibet.com.au/")                                          \* unibet

ALIASES ==
      (<<98, 101, 116, 95, 114, 105, 103, 104, 116>> :> <<98, 101, 116, 114, 105, 103, 104, 116>>)                \* bet_right -> betright
   @@ (<<98, 101, 116, 102, 97, 105, 114>> :> <<98, 101, 116, 102, 97, 105, 114, 95, 101, 120, 95, 97, 117>>)     \* betfair -> betfair_ex_au
   @@ (<<112, 111, 105, 110, 116, 115, 98, 101, 116>> :> <<112, 111, 105, 110, 116, 115, 98, 101, 116, 97, 117>>) \* pointsbet -> pointsbetau
   @@ (<<115, 112, 111, 114, 116, 115, 98, 101, 116, 95, 97, 117>> :> <<115, 112, 111, 114, 116, 115, 98, 101, 116>>) \* sportsbet_au -> sportsbet
   @@ (<<117, 110, 105, 98, 101, 116, 95, 97, 117>> :> <<117, 110, 105, 98, 101, 116>>)                           \* unibet_au -> unibet
   @@ (<<116, 97, 98, 95, 97, 117>> :> <<116, 97, 98>>)                                                           \* tab_au -> tab

CANONICAL_NAME ==
      (<<98, 101, 116, 102, 97, 105, 114, 95, 101, 120, 95, 97, 117>> :> <<66, 101, 116, 102, 97, 105, 114>>)                   \* betfair_ex_au: Betfair
   @@ (<<112, 111, 105, 110, 116, 115, 98, 101, 116, 97, 117>> :> <<80, 111, 105, 110, 116, 115, 66, 101, 116, 32, 40, 65, 85, 41>>) \* pointsbetau: PointsBet (AU)
   @@ (<<115, 112, 111, 114, 116, 115, 98, 101, 116>> :> <<83, 112, 111, 114, 116, 115, 66, 101, 116>>)                          \* sportsbet: SportsBet
   @@ (<<116, 97, 98>> :> <<84, 65, 66>>)                                                                                        \* tab: TAB

\* dict.get(k): the value as an Optional.
DictGet(d, k) == IF k \in DOMAIN d THEN Some(d[k]) ELSE None

\* dict.get(k, default)
DictGetOr(d, k, default) == IF k \in DOMAIN d THEN d[k] ELSE default

\* A slip the idempotence of normalize_key would expose: the alias is looked
\* up before the key is lowercased, and the result lowercased afterwards.
normalize_key_alias_first(key) ==
    IF ~TruthyStr(key) THEN << >>
    ELSE LET k == Strip(key[1]) IN Lower(DictGetOr(ALIASES, k, k))

normalize_key(key) ==
    IF ~TruthyStr(key) THEN << >>
    ELSE LET k == Lower(Strip(key[1])) IN DictGetOr(ALIASES, k, k)

\* key or ""
RawKey(key) == IF TruthyStr(key) THEN key[1] ELSE << >>

\* A slip: the returned key is the normalized key alone, without the
\* fallback to the raw input key.
get_bookmaker_meta_no_raw_key(key, title) ==
    LET nk == normalize_key(key)
        canonical == DictGet(CANONICAL_NAME, nk)
    IN  [key  |-> nk,
         name |-> IF TruthyStr(canonical) THEN canonical[1]
                  ELSE IF TruthyStr(title) THEN title[1]
                  ELSE RawKey(key),
         url  |-> DictGet(BOOKMAKER_URLS, nk)]

\* A slip: the provider's title is preferred to the canonical name.
get_bookmaker_meta_title_first(key, title) ==
    LET nk == normalize_key(key)
        canonical == DictGet(CANONICAL_NAME, nk)
    IN  [key  |-> IF nk # << >> THEN nk ELSE RawKey(key),
         name |-> IF TruthyStr(title) THEN title[1]
                  ELSE IF TruthyStr(canonical) THEN canonical[1]
                  ELSE RawKey(key),
         url  |-> DictGet(BOOKMAKER_URLS, nk)]

get_bookmaker_meta(key, title) ==
    LET nk == normalize_key(key)
        url == DictGet(BOOKMAKER_URLS, nk)
        canonical == DictGet(CANONICAL_NAME, nk)
        name == IF TruthyStr(canonical) THEN canonical[1]
                ELSE IF TruthyStr(title) THEN title[1]
                ELSE RawKey(key)
    IN  [key  |-> IF nk # << >> THEN nk ELSE RawKey(key),
         name |-> name,
         url  |-> url]

(***************************************************************************)
(* The keys and titles the registry is called with                         *)
(***************************************************************************)

MaxPad == 1     \* whitespace characters put before and after a key
MaxLen == 3     \* length of the strings over ShortAlphabet

S_unknownkey == <<117, 110, 107, 110, 111, 119, 110, 107, 101, 121>>  \* "unknownkey"
S_SomeTitle  == <<83, 111, 109, 101, 32, 84, 105, 116, 108, 101>>     \* "Some Title"
S_tab        == <<116, 97, 98>>                                       \* "tab"
S_TAB        == <<84, 65, 66>>                                        \* "TAB"

Words == (DOMAIN ALIASES) \cup (DOMAIN BOOKMAKER_URLS) \cup {S_unknownkey}

\* tab, space, "A", "T", "_", "a", "b", "t"
ShortAlphabet == {9, 32, 65, 84, 95, 97, 98, 116}

ShortStrings == UNION {[1..n -> ShortAlphabet] : n \in 0..MaxLen}

Pad(n) == [i \in 1..n |-> 32]

\* w as written (0), in upper case (1), capitalised (2).
Cased(w, mode) ==
    [i \in 1..Len(w) |-> IF mode = 1 \/ (mode = 2 /\ i = 1) THEN UpperChar(w[i]) ELSE w[i]]

KeyInputs ==
    {None}
    \cup {Some(Pad(l) \o Cased(w, m) \o Pad(r)) :
            w \in Words, m \in 0..2, l \in 0..MaxPad, r \in 0..MaxPad}
    \cup {Some(s) : s \in ShortStrings}

TitleInputs == {None, Some(<< >>), Some(S_SomeTitle), Some(S_tab)}

(***************************************************************************)
(* State machine                                                           *)
(***************************************************************************)

Init ==
    /\ store = {}
    /\ now = 0
    /\ req = [op |-> "none"]
    /\ resp = [status |-> 0]

Idle == req.op = "none"

\* The response has been sent: nothing of a request outlives it.
Reply ==
    /\ ~Idle
    /\ req' = [op |-> "none"]
    /\ resp' = [status |-> 0]
    /\ UNCHANGED <<store, now>>

NormalizeKey ==
    /\ Idle
    /\ \E key \in KeyInputs :
        /\ req' = [op |-> "normalize_key", key |-> key]
        /\ resp' = normalize_key(key)
    /\ UNCHANGED <<store, now>>

GetBookmakerMeta ==
    /\ Idle
    /\ \E key \in KeyInputs, title \in TitleInputs :
        /\ req' = [op |-> "get_bookmaker_meta", key |-> key, title |-> title]
        /\ resp' = get_bookmaker_meta(key, title)
    /\ UNCHANGED <<store, now>>

NextRegistry == NormalizeKey \/ GetBookmakerMeta \/ Reply

SpecRegistry == Init /\ [][NextRegistry]_vars

(***************************************************************************)
(* C1: normalize_key is total and idempotent: every call returns a string, *)
(* an absent or empty key gives the empty string, and normalizing the      *)
(* result again gives the result.                                          *)
(***************************************************************************)
IsStr(s) == s \in Seq(0..127)

C1_NormalizeIdempotent ==
    req.op = "normalize_key" =>
        /\ IsStr(resp)
        /\ (req.key = None \/ req.key = Some(<< >>)) => resp = << >>
        /\ normalize_key(Some(resp)) = resp

\* A padded, mixed-case alias has been normalized to its canonical key.
C1_Witness ==
    /\ req.op = "normalize_key"
    /\ req.key = Some(<<32, 84, 97, 98, 95, 97, 117, 32>>)   \* " Tab_au "
    /\ resp = S_tab

(***************************************************************************)
(* C2 as stated: the returned key is non-empty whenever the input key or   *)
(* the input title is non-empty.                                           *)
(***************************************************************************)
C2_KeyNonEmptyIfKeyOrTitle ==
    req.op = "get_bookmaker_meta" =>
        ((TruthyStr(req.key) \/ TruthyStr(req.title)) => resp.key # << >>)

\* C2 as amended: the returned key is non-empty exactly when the input key is
\* non-empty (a title never supplies a key).
C2_KeyNonEmptyIffKey ==
    req.op = "get_bookmaker_meta" =>
        (resp.key # << >> <=> TruthyStr(req.key))

\* A whitespace-only key with a title: the normalized key is empty and the raw
\* key is returned.
C2_Witness ==
    /\ req.op = "get_bookmaker_meta"
    /\ req.key = Some(<<32, 32>>)
    /\ req.title = Some(S_SomeTitle)
    /\ resp.key = <<32, 32>>

(***************************************************************************)
(* C3: get_bookmaker_meta returns name = the canonical name of the         *)
(* normalized key if there is one, else the title if non-empty, else the   *)
(* raw key, else ""; url = the known URL of the normalized key, absent     *)
(* exactly when the normalized key is not in the URL table.                *)
(***************************************************************************)
C3_MetaFallbacks ==
    req.op = "get_bookmaker_meta" =>
        LET nk == normalize_key(req.key) IN
        /\ IsStr(resp.key) /\ IsStr(resp.name)
        /\ nk \in DOMAIN CANONICAL_NAME => resp.name = CANONICAL_NAME[nk]
        /\ (nk \notin DOMAIN CANONICAL_NAME /\ TruthyStr(req.title)) =>
               resp.name = req.title[1]
        /\ (nk \notin DOMAIN CANONICAL_NAME /\ ~TruthyStr(req.title) /\ TruthyStr(req.key)) =>
               resp.name = req.key[1]
        /\ (nk \notin DOMAIN CANONICAL_NAME /\ ~TruthyStr(req.title) /\ ~TruthyStr(req.key)) =>
               resp.name = << >>
        /\ nk \in DOMAIN BOOKMAKER_URLS => resp.url = Some(BOOKMAKER_URLS[nk])
        /\ nk \notin DOMAIN BOOKMAKER_URLS <=> resp.url = None
        /\ (req.key = Some(S_unknownkey) /\ req.title = Some(S_SomeTitle)) =>
               resp = [key |-> S_unknownkey, name |-> S_SomeTitle, url |-> None]
        /\ (req.key = Some(S_tab) /\ req.title = None) =>
               resp = [key |-> S_tab, name |-> S_TAB, url |-> Some("https://www.tab.com.au/")]

\* A known key with a canonical name was resolved although a title was given.
C3_Witness ==
    /\ req.op = "get_bookmaker_meta"
    /\ req.key = Some(S_tab)
    /\ req.title = Some(S_SomeTitle)
    /\ resp = [key |-> S_tab, name |-> S_TAB, url |-> Some("https://www.tab.com.au/")]

(***************************************************************************)
(* Floats                                                                  *)
(*                                                                         *)
(* float(x) of a DECIMAL and the arithmetic of sum()/len() are IEEE-754    *)
(* binary64 with round-to-nearest-even.  A float is <<s, e, hi, lo>>:      *)
(* sign s (1: negative), and the 53-bit significand hi * 2^26 + lo with    *)
(* 2^26 <= hi < 2^27 and 0 <= lo < 2^26; its value is                      *)
(* (-1)^s * (hi * 2^26 + lo) * 2^(e - 52).                                *)
(* The two 26/27-bit limbs keep every intermediate below 2^31.  Zero is   *)
(* FloatZero, below every exponent.                                        *)
(***************************************************************************)

Limb == 2^26

\* A DECIMAL is an integer count of 1/DecimalUnit.
DecimalUnit == 10^3

\* floor(log2(num / den)) for num, den > 0.
RECURSIVE ExpOf(_, _)
ExpOf(num, den) ==
    IF num < den THEN ExpOf(2 * num, den) - 1
    ELSE IF num >= 2 * den THEN ExpOf(num, 2 * den) + 1
    ELSE 0

\* The significand after a round-up, renormalized on overflow.
Incr(s, e, hi, lo) ==
    IF lo + 1 < Limb THEN <<s, e, hi, lo + 1>>
    ELSE IF hi + 1 < 2 * Limb THEN <<s, e, hi + 1, 0>>
    ELSE <<s, e + 1, Limb, 0>>

\* The float nearest to (-1)^s * num / den (num, den > 0; den * 2^e and num
\* below 2^17): long division, 13 bits of the quotient at a time.
FloatOfRatio(s, num, den) ==
    LET e  == ExpOf(num, den)
        n1 == IF e < 0 THEN num * 2^(-e) ELSE num
        d1 == IF e > 0 THEN den * 2^e ELSE den
        t1 == (n1 - d1) * 2^13
        t2 == (t1 % d1) * 2^13
        t3 == (t2 % d1) * 2^13
        t4 == (t3 % d1) * 2^13
        hi == Limb + (t1 \div d1) * 2^13 + (t2 \div d1)
        lo == (t3 \div d1) * 2^13 + (t4 \div d1)
        r  == t4 % d1
    IN  IF 2 * r > d1 \/ (2 * r = d1 /\ lo % 2 = 1)
        THEN Incr(s, e, hi, lo)
        ELSE <<s, e, hi, lo>>

\* 0.0
FloatZero == <<0, -1075, 0, 0>>

\* float(d) of a DECIMAL d.
FloatOfDecimal(d) ==
    IF d = 0 THEN FloatZero
    ELSE IF d < 0 THEN FloatOfRatio(1, -d, DecimalUnit) ELSE FloatOfRatio(0, d, DecimalUnit)

\* The significand <<hi, lo>> shifted right by k bits: <<hi, lo, half, sticky>>
\* with half the first bit shifted out and sticky whether a lower one is set.
RECURSIVE ShiftRight(_, _, _)
ShiftRight(hi, lo, k) ==
    IF k = 0 THEN <<hi, lo, 0, FALSE>>
    ELSE IF k <= 26 THEN
        LET out == lo % 2^k IN
        << hi \div 2^k,
           (hi % 2^k) * 2^(26 - k) + lo \div 2^k,
           out \div 2^(k - 1),
           out % 2^(k - 1) # 0 >>
    ELSE LET r == ShiftRight(hi \div Limb, hi % Limb, k - 26)
         IN  <<r[1], r[2], r[3], r[4] \/ lo # 0>>

\* Round-to-nearest-even of the significand <<hi, lo>> followed by the
\* fraction given by half and sticky.
RoundNearestEven(s, e, hi, lo, half, sticky) ==
    IF half = 1 /\ (sticky \/ lo % 2 = 1) THEN Incr(s, e, hi, lo) ELSE <<s, e, hi, lo>>

\* x + y for floats of the same sign.
FloatAdd(x, y) ==
    LET a  == IF x[2] >= y[2] THEN x ELSE y
        b  == IF x[2] >= y[2] THEN y ELSE x
        sh == ShiftRight(b[3], b[4], a[2] - b[2])
        l0 == a[4] + sh[2]
        lo == l0 % Limb
        hi == a[3] + sh[1] + l0 \div Limb
    IN  IF hi < 2 * Limb
        THEN RoundNearestEven(a[1], a[2], hi, lo, sh[3], sh[4])
        ELSE RoundNearestEven(a[1], a[2] + 1, hi \div 2, (hi % 2) * (Limb \div 2) + lo \div 2,
                              lo % 2, sh[3] = 1 \/ sh[4])

\* The number of bits by which hi falls short of a full limb.
RECURSIVE Shortfall(_)
Shortfall(hi) == IF hi >= Limb THEN 0 ELSE 1 + Shortfall(2 * hi)

\* x / n for a float x and an int n in 1..16 (n is converted exactly).
FloatDivInt(x, n) ==
    IF x[3] = 0 THEN x ELSE
    LET qh == x[3] \div n
        t  == (x[3] % n) * Limb + x[4]
        ql == t \div n
        k  == Shortfall(qh)
        u  == (t % n) * 2^k
        hi == qh * 2^k + ql \div 2^(26 - k)
        lo == (ql % 2^(26 - k)) * 2^k + u \div n
        r  == u % n
    IN  IF 2 * r > n \/ (2 * r = n /\ lo % 2 = 1)
        THEN Incr(x[1], x[2] - k, hi, lo)
        ELSE <<x[1], x[2] - k, hi, lo>>

\* x < y
FloatLess(x, y) ==
    LET magLess(a, b) ==
            \/ a[2] < b[2]
            \/ a[2] = b[2] /\ a[3] < b[3]
            \/ a[2] = b[2] /\ a[3] = b[3] /\ a[4] < b[4]
    IN  IF x[1] # y[1] THEN x[1] = 1
        ELSE IF x[1] = 0 THEN magLess(x, y)
        ELSE magLess(y, x)

FloatLeq(x, y) == x = y \/ FloatLess(x, y)

(***************************************************************************)
(* The store: dbo.AFL_2025_odds                                            *)
(*                                                                         *)
(* A row is a record of the columns the queries of main.py name.  Strings  *)
(* the queries order or compare with request text (event_id,               *)
(* bookmaker_key) are strings of code points; timestamps are integers      *)
(* (hours); the ten price/point columns are Optional DECIMALs.             *)
(***************************************************************************)

PriceColumns ==
    << "home_h2h_price", "away_h2h_price",
       "home_spread_price", "home_spread_point", "away_spread_price", "away_spread_point",
       "over_total_price", "over_total_point", "under_total_price", "under_total_point" >>

\* row[i] of a pyodbc row, i counted from 0 as in main.py.
Col(row, i) == row[i + 1]

\* `if not rows`
IsEmpty(rows) == rows = << >>

\* MAX(snapshot_at) over a set of rows: NULL over no row.
MaxSnapshot(rows) ==
    IF rows = {} THEN None
    ELSE Some(CHOOSE m \in {o.snapshot_at : o \in rows} : \A o \in rows : o.snapshot_at <= m)

\* The orders in which a query may return the rows of S under an ORDER BY
\* whose strict order is Less: rows the ORDER BY does not tell apart come in
\* any order.
OrderBy(S, Less(_, _)) ==
    LET orders[T \in SUBSET S] ==
            IF T = {} THEN {<< >>}
            ELSE UNION { {<<m>> \o rest : rest \in orders[T \ {m}]} :
                         m \in {x \in T : \A y \in T : ~Less(y, x)} }
    IN  orders[S]

\* x put into a sorted list behind every element that is not greater.
InsertStable(sorted, x, Less(_, _)) ==
    LET pos == Cardinality({i \in 1..Len(sorted) : ~Less(x, sorted[i])})
    IN  SubSeq(sorted, 1, pos) \o <<x>> \o SubSeq(sorted, pos + 1, Len(sorted))

\* list.sort(key=...): a stable sort, Less the strict order of the keys.
StableSort(s, Less(_, _)) ==
    LET sorted[n \in 0..Len(s)] ==
            IF n = 0 THEN << >> ELSE InsertStable(sorted[n - 1], s[n], Less)
    IN  sorted[Len(s)]

\* `float(x) if x else None` of a DECIMAL column: NULL and zero are falsy.
\* A slip: only NULL is taken for absent.
FloatOrNone_null_only(x) == IF x # None THEN Some(FloatOfDecimal(x[1])) ELSE None

FloatOrNone(x) == IF x # None /\ x[1] # 0 THEN Some(FloatOfDecimal(x[1])) ELSE None

\* BookmakerOdds(...) as built by get_sport_events and get_event_detail from
\* the row's bookmaker columns and its ten price/point columns p[1..10].
BookmakerOdds(key, title, snapshot_at, p) ==
    [ bookmaker_key   |-> key,
      bookmaker_title |-> title,
      last_update     |-> snapshot_at,
      h2h     |-> [home |-> FloatOrNone(p[1]), away |-> FloatOrNone(p[2])],
      spreads |-> [home |-> [price |-> FloatOrNone(p[3]), point |-> FloatOrNone(p[4])],
                   away |-> [price |-> FloatOrNone(p[5]), point |-> FloatOrNone(p[6])]],
      totals  |-> [over  |-> [price |-> FloatOrNone(p[7]), point |-> FloatOrNone(p[8])],
                   under |-> [price |-> FloatOrNone(p[9]), point |-> FloatOrNone(p[10])]] ]

(***************************************************************************)
(* GET /api/sports/{sport_key}/events                                      *)
(***************************************************************************)

\* The CTE LatestSnapshot of get_sport_events.
SportLatestSnapshot(db, sport_key) == MaxSnapshot({o \in db : o.sport_key = sport_key})

\* The CTE RelevantEvents: SELECT DISTINCT event_id, home_team, away_team,
\* commence_time.
RelevantEvents(db, clock, sport_key) ==
    { <<o.event_id, o.home_team, o.away_team, o.commence_time>> :
        o \in { o \in db : /\ o.sport_key = sport_key
                           /\ Some(o.snapshot_at) = SportLatestSnapshot(db, sport_key)
                           /\ o.commence_time > clock } }

\* A slip: the outer SELECT does not restrict o to the latest snapshot.
EventsJoin_any_snapshot(db, clock, sport_key) ==
    { j \in RelevantEvents(db, clock, sport_key) \X db :
        /\ j[1][1] = j[2].event_id
        /\ j[2].sport_key = sport_key }

\* FROM RelevantEvents re JOIN dbo.AFL_2025_odds o ON re.event_id = o.event_id
\* CROSS JOIN LatestSnapshot ls WHERE o.sport_key = ? AND o.snapshot_at =
\* ls.latest_snapshot
EventsJoin(db, clock, sport_key) ==
    { j \in RelevantEvents(db, clock, sport_key) \X db :
        /\ j[1][1] = j[2].event_id
        /\ j[2].sport_key = sport_key
        /\ Some(j[2].snapshot_at) = SportLatestSnapshot(db, sport_key) }

\* A slip: the CASE of is_live compares the wrong way round.
EventsSelect_live_when_upcoming(clock, re, o) ==
    << re[1], re[2], re[3], re[4],
       o.bookmaker_key, o.bookmaker_title, o.snapshot_at,
       o.home_h2h_price, o.away_h2h_price,
       o.home_spread_price, o.home_spread_point, o.away_spread_price, o.away_spread_point,
       o.over_total_price, o.over_total_point, o.under_total_price, o.under_total_point,
       IF re[4] > clock THEN 1 ELSE 0 >>

\* The columns of the outer SELECT (no two rows are equal: a row of the table
\* is identified by event_id, bookmaker_key and snapshot_at).
EventsSelect(clock, re, o) ==
    << re[1], re[2], re[3], re[4],
       o.bookmaker_key, o.bookmaker_title, o.snapshot_at,
       o.home_h2h_price, o.away_h2h_price,
       o.home_spread_price, o.home_spread_point, o.away_spread_price, o.away_spread_point,
       o.over_total_price, o.over_total_point, o.under_total_price, o.under_total_point,
       IF re[4] <= clock THEN 1 ELSE 0 >>

EventsRows(db, clock, sport_key) ==
    { EventsSelect(clock, j[1], j[2]) : j \in EventsJoin(db, clock, sport_key) }

\* ORDER BY re.commence_time, re.event_id, o.bookmaker_key
EventsOrder(a, b) ==
    \/ Col(a, 3) < Col(b, 3)
    \/ Col(a, 3) = Col(b, 3) /\ StrLess(Col(a, 0), Col(b, 0))
    \/ Col(a, 3) = Col(b, 3) /\ Col(a, 0) = Col(b, 0) /\ StrLess(Col(a, 4), Col(b, 4))

EventsQuery(db, clock, sport_key) == OrderBy(EventsRows(db, clock, sport_key), EventsOrder)

\* A slip: a later row of an event overwrites the fields the first one set.
AddEventRow_overwrite(events, sport_key, row) ==
    LET event_id == Col(row, 0)
        odds == BookmakerOdds(Col(row, 4), Col(row, 5), Col(row, 6), SubSeq(row, 8, 17))
        seen == \E i \in 1..Len(events) : events[i].event_id = event_id
        with == IF seen THEN events
                ELSE Append(events, [ event_id |-> event_id, sport_key |-> sport_key,
                                      home_team |-> Col(row, 1), away_team |-> Col(row, 2),
                                      commence_time |-> Col(row, 3), bookmakers |-> << >>,
                                      is_live |-> Col(row, 17) # 0 ])
    IN  [ i \in 1..Len(with) |->
            IF with[i].event_id = event_id
            THEN [with[i] EXCEPT !.bookmakers = Append(@, odds),
                                 !.home_team = Col(row, 1), !.away_team = Col(row, 2),
                                 !.commence_time = Col(row, 3)]
            ELSE with[i] ]

\* The loop body of get_sport_events: events is events_dict in insertion
\* order.
AddEventRow(events, sport_key, row) ==
    LET event_id == Col(row, 0)
        odds == BookmakerOdds(Col(row, 4), Col(row, 5), Col(row, 6), SubSeq(row, 8, 17))
        seen == \E i \in 1..Len(events) : events[i].event_id = event_id
        with == IF seen THEN events
                ELSE Append(events,
                            [ event_id      |-> event_id,
                              sport_key     |-> sport_key,
                              home_team     |-> Col(row, 1),
                              away_team     |-> Col(row, 2),
                              commence_time |-> Col(row, 3),
                              bookmakers    |-> << >>,
                              is_live       |-> Col(row, 17) # 0 ])
    IN  [ i \in 1..Len(with) |->
            IF with[i].event_id = event_id
            THEN [with[i] EXCEPT !.bookmakers = Append(@, odds)]
            ELSE with[i] ]

RECURSIVE EventsDict(_, _)
EventsDict(sport_key, rows) ==
    IF rows = << >> THEN << >>
    ELSE AddEventRow(EventsDict(sport_key, SubSeq(rows, 1, Len(rows) - 1)),
                     sport_key, rows[Len(rows)])

CommenceLess(a, b) == a.commence_time < b.commence_time

\* get_sport_events, given the rows cursor.fetchall() returned.
get_sport_events(sport_key, rows) ==
    IF IsEmpty(rows) THEN [status |-> 200, body |-> << >>]
    ELSE [status |-> 200,
          body   |-> StableSort(EventsDict(sport_key, rows), CommenceLess)]

(***************************************************************************)
(* GET /api/events/{event_id}                                              *)
(***************************************************************************)

\* A slip: the latest snapshot of the whole table, as in get_sports.
EventLatestSnapshot_of_table(db, event_id) == MaxSnapshot(db)

\* The CTE LatestSnapshot of get_event_detail.
EventLatestSnapshot(db, event_id) == MaxSnapshot({o \in db : o.event_id = event_id})

DetailSelect(o) ==
    << o.event_id, o.sport_key, o.home_team, o.away_team, o.commence_time,
       o.bookmaker_key, o.bookmaker_title, o.snapshot_at,
       o.home_h2h_price, o.away_h2h_price,
       o.home_spread_price, o.home_spread_point, o.away_spread_price, o.away_spread_point,
       o.over_total_price, o.over_total_point, o.under_total_price, o.under_total_point >>

DetailRows(db, event_id) ==
    { DetailSelect(o) :
        o \in { o \in db : /\ o.event_id = event_id
                           /\ Some(o.snapshot_at) = EventLatestSnapshot(db, event_id) } }

\* ORDER BY o.bookmaker_key
DetailOrder(a, b) == StrLess(Col(a, 5), Col(b, 5))

DetailQuery(db, event_id) == OrderBy(DetailRows(db, event_id), DetailOrder)

\* `if row[i]:` for a DECIMAL column.
Truthy(x) == x # None /\ x[1] # 0

\* The list of float(row[i]) over the rows whose row[i] is truthy, in row order.
RECURSIVE CollectPrices(_, _)
CollectPrices(rows, i) ==
    IF rows = << >> THEN << >>
    ELSE LET before == CollectPrices(SubSeq(rows, 1, Len(rows) - 1), i)
             row == rows[Len(rows)]
         IN  IF Truthy(Col(row, i)) THEN Append(before, FloatOfDecimal(Col(row, i)[1]))
             ELSE before

\* max(prices) and min(prices) of a non-empty list.
RECURSIVE FloatMax(_)
FloatMax(prices) ==
    IF Len(prices) = 1 THEN prices[1]
    ELSE LET m == FloatMax(SubSeq(prices, 1, Len(prices) - 1))
         IN  IF FloatLess(m, prices[Len(prices)]) THEN prices[Len(prices)] ELSE m

RECURSIVE FloatMin(_)
FloatMin(prices) ==
    IF Len(prices) = 1 THEN prices[1]
    ELSE LET m == FloatMin(SubSeq(prices, 1, Len(prices) - 1))
         IN  IF FloatLess(prices[Len(prices)], m) THEN prices[Len(prices)] ELSE m

\* sum(prices) of a non-empty list of floats: 0 + p1 is p1, and every further
\* addition rounds.  (CPython from 3.12 on adds a compensation term at the
\* end; for up to two prices, and for three equal ones, the result is the
\* same.)
RECURSIVE FloatSum(_)
FloatSum(prices) ==
    IF Len(prices) = 1 THEN prices[1]
    ELSE FloatAdd(FloatSum(SubSeq(prices, 1, Len(prices) - 1)), prices[Len(prices)])

\* {"best": max, "worst": min, "average": sum / len}
PriceStats(prices) ==
    [ best    |-> FloatMax(prices),
      worst   |-> FloatMin(prices),
      average |-> FloatDivInt(FloatSum(prices), Len(prices)) ]

RECURSIVE CurrentOdds(_)
CurrentOdds(rows) ==
    IF rows = << >> THEN << >>
    ELSE LET row == rows[Len(rows)]
         IN  Append(CurrentOdds(SubSeq(rows, 1, Len(rows) - 1)),
                    BookmakerOdds(Col(row, 5), Col(row, 6), Col(row, 7), SubSeq(row, 9, 18)))

\* The dict odds_comparison: a key is set only for a non-empty price list.
OddsComparison(rows) ==
    LET h2h_home_prices == CollectPrices(rows, 8)
        h2h_away_prices == CollectPrices(rows, 9)
        keys == (IF h2h_home_prices # << >> THEN {"h2h_home"} ELSE {})
                \cup (IF h2h_away_prices # << >> THEN {"h2h_away"} ELSE {})
    IN  [ k \in keys |->
            IF k = "h2h_home" THEN PriceStats(h2h_home_prices) ELSE PriceStats(h2h_away_prices) ]

\* get_event_detail, given the rows cursor.fetchall() returned.
get_event_detail(event_id, rows) ==
    IF IsEmpty(rows) THEN [status |-> 404, detail |-> "Event not found"]
    ELSE LET first_row == rows[1] IN
         [ status |-> 200,
           body   |-> [ event_id        |-> event_id,
                        sport_key       |-> Col(first_row, 1),
                        home_team       |-> Col(first_row, 2),
                        away_team       |-> Col(first_row, 3),
                        commence_time   |-> Col(first_row, 4),
                        current_odds    |-> CurrentOdds(rows),
                        odds_comparison |-> OddsComparison(rows) ] ]

(***************************************************************************)
(* GET /api/events/{event_id}/history                                      *)
(***************************************************************************)

MinHours == 1
MaxHours == 168
DefaultHours == 72

MarketTypes == {"h2h", "spreads", "totals"}

\* info_query: SELECT TOP 1 home_team, away_team WHERE event_id = ?  (no
\* ORDER BY: any row of the event).
InfoQuery(db, event_id) ==
    { <<o.home_team, o.away_team>> : o \in {o \in db : o.event_id = event_id} }

QuoteChar == 39

\* The number of quote characters of a text.
RECURSIVE QuoteCount(_)
QuoteCount(text) ==
    IF text = << >> THEN 0
    ELSE (IF Head(text) = QuoteChar THEN 1 ELSE 0) + QuoteCount(Tail(text))

\* bookmaker_filter: the request's text is pasted between quotes into the
\* statement.  Without a quote in it the statement compares bookmaker_key
\* with that text; with an odd number of quotes the statement ends inside a
\* string literal and the server rejects it.  (A text with two or more quotes
\* can rewrite the WHERE clause; no such text is among the requests of the
\* model.)
StatementIsMalformed(bookmaker) ==
    TruthyStr(bookmaker) /\ QuoteCount(bookmaker[1]) % 2 = 1

HistorySelect(o) ==
    << o.snapshot_at, o.bookmaker_key,
       o.home_h2h_price, o.away_h2h_price,
       o.home_spread_price, o.home_spread_point, o.away_spread_price, o.away_spread_point,
       o.over_total_price, o.over_total_point, o.under_total_price, o.under_total_point >>

\* WHERE event_id = ? AND snapshot_at >= DATEADD(hour, -hours, GETDATE())
\* {bookmaker_filter}
HistoryRows(db, clock, event_id, bookmaker, hours) ==
    { HistorySelect(o) :
        o \in { o \in db : /\ o.event_id = event_id
                           /\ o.snapshot_at >= clock - hours
                           /\ TruthyStr(bookmaker) => o.bookmaker_key = bookmaker[1] } }

\* ORDER BY snapshot_at ASC, bookmaker_key
HistoryOrder(a, b) ==
    \/ Col(a, 0) < Col(b, 0)
    \/ Col(a, 0) = Col(b, 0) /\ StrLess(Col(a, 1), Col(b, 1))

HistoryQuery(db, clock, event_id, bookmaker, hours) ==
    OrderBy(HistoryRows(db, clock, event_id, bookmaker, hours), HistoryOrder)

\* point.values for the requested market type.
HistoryValues(market_type, row) ==
    IF market_type = "h2h" THEN
        [ home |-> FloatOrNone(Col(row, 2)),
          away |-> FloatOrNone(Col(row, 3)) ]
    ELSE IF market_type = "spreads" THEN
        [ home_price |-> FloatOrNone(Col(row, 4)),
          home_point |-> FloatOrNone(Col(row, 5)),
          away_price |-> FloatOrNone(Col(row, 6)),
          away_point |-> FloatOrNone(Col(row, 7)) ]
    ELSE IF market_type = "totals" THEN
        [ over_price  |-> FloatOrNone(Col(row, 8)),
          over_point  |-> FloatOrNone(Col(row, 9)),
          under_price |-> FloatOrNone(Col(row, 10)),
          under_point |-> FloatOrNone(Col(row, 11)) ]
    ELSE << >>

RECURSIVE HistoryPoints(_, _)
HistoryPoints(market_type, rows) ==
    IF rows = << >> THEN << >>
    ELSE LET row == rows[Len(rows)]
         IN  Append(HistoryPoints(market_type, SubSeq(rows, 1, Len(rows) - 1)),
                    [ timestamp   |-> Col(row, 0),
                      bookmaker   |-> Col(row, 1),
                      market_type |-> market_type,
                      values      |-> HistoryValues(market_type, row) ])

\* The declared query parameters: market_type must match ^(h2h|spreads|totals)$
\* and hours lie in 1..168, or the request is rejected before the handler
\* runs.
HistoryParamsValid(market_type, hours) ==
    market_type \in MarketTypes /\ hours >= MinHours /\ hours <= MaxHours

\* What cursor.execute(query, (event_id, -hours)) and fetchall() come to: the
\* rows in one of the orders the ORDER BY allows, or the server's error.
HistoryExecute(db, clock, event_id, bookmaker, hours) ==
    IF StatementIsMalformed(bookmaker)
    THEN { [ok |-> FALSE, error |-> "Unclosed quotation mark after the character string"] }
    ELSE { [ok |-> TRUE, rows |-> rows] :
             rows \in HistoryQuery(db, clock, event_id, bookmaker, hours) }

\* get_event_history: info is what fetchone() of info_query returned (None
\* when the event has no row), result what the history query came to.
get_event_history(event_id, market_type, bookmaker, hours, info, result) ==
    IF ~HistoryParamsValid(market_type, hours) THEN
        [status |-> 422, detail |-> "validation error"]
    ELSE IF info = None THEN
        [status |-> 404, detail |-> "Event not found"]
    ELSE IF ~result.ok THEN
        [status |-> 500, detail |-> result.error]
    ELSE
        [ status |-> 200,
          body   |-> [ event_id    |-> event_id,
                       home_team   |-> info[1][1],
                       away_team   |-> info[1][2],
                       market_type |-> market_type,
                       bookmaker   |-> bookmaker,
                       history     |-> HistoryPoints(market_type, result.rows) ] ]

(***************************************************************************)
(* The rows the external writer puts into the table, and the requests      *)
(***************************************************************************)

MaxRows == 3    \* rows in the table
MaxNow  == 3    \* the clock runs from 0 to MaxNow

E1 == <<69, 49>>    \* "E1"
E2 == <<69, 50>>    \* "E2"
E3 == <<69, 51>>    \* "E3": an event id no row carries

S_betr  == <<98, 101, 116, 114>>            \* "betr"
S_neds  == <<110, 101, 100, 115>>           \* "neds"
S_oneil == <<111, 39, 110, 101, 105, 108>>  \* "o'neil"

Snapshots == {1, 2}

Row(event_id, sport_key, home_team, commence_time, bookmaker_key, snapshot_at, q) ==
    [ event_id          |-> event_id,
      sport_key         |-> sport_key,
      home_team         |-> Some(home_team),
      away_team         |-> Some("Swans"),
      commence_time     |-> commence_time,
      bookmaker_key     |-> bookmaker_key,
      bookmaker_title   |-> IF bookmaker_key = S_tab THEN Some("TAB") ELSE None,
      snapshot_at       |-> snapshot_at,
      home_h2h_price    |-> q[1],
      away_h2h_price    |-> q[2],
      home_spread_price |-> q[3],
      home_spread_point |-> q[4],
      away_spread_price |-> q[5],
      away_spread_point |-> q[6],
      over_total_price  |-> q[7],
      over_total_point  |-> q[8],
      under_total_price |-> q[9],
      under_total_point |-> q[10] ]

\* The price/point columns of a row, in the order of PriceColumns.
Quote(o) == [i \in 1..Len(PriceColumns) |-> o[PriceColumns[i]]]

H2hQuote(home, away) == <<home, away, None, None, None, None, None, None, None, None>>

HomeTeamOf(event_id) == IF event_id = E1 THEN "Cats" ELSE "Lions"

CommenceOf(event_id) == IF event_id = E1 THEN 2 ELSE 3

\* Rows for the event list and the event detail: two events, either of them
\* under two sports, two bookmakers, two snapshots.
StoreRows ==
    { Row(e, s, HomeTeamOf(e), CommenceOf(e), b, t, H2hQuote(Some(1900), Some(1950))) :
        e \in {E1, E2}, s \in {"afl", "nba"}, b \in {S_neds, S_tab}, t \in Snapshots }

\* Rows for the odds comparison: one event, three bookmakers, two snapshots,
\* the head-to-head prices absent, zero or quoted.
CompareRows ==
    { Row(E1, "afl", "Cats", 2, b, t, H2hQuote(home, away)) :
        b \in {S_betr, S_neds, S_tab}, t \in Snapshots,
        home \in {None, Some(0), Some(1900), Some(1950), Some(2100)},
        away \in {None, Some(1800)} }

\* Rows for the history: two events, two bookmakers, two snapshots.
HistoryStoreRows ==
    { Row(e, "afl", HomeTeamOf(e), CommenceOf(e), b, t, H2hQuote(Some(1900), Some(1950))) :
        e \in {E1, E2}, b \in {S_neds, S_tab}, t \in Snapshots }

\* The table identifies a row by (event_id, bookmaker_key, snapshot_at).
RowKey(o) == <<o.event_id, o.bookmaker_key, o.snapshot_at>>

\* The external writer appends a row.
Ingest(rows) ==
    /\ Idle
    /\ Cardinality(store) < MaxRows
    /\ \E r \in rows :
        /\ \A o \in store : RowKey(o) # RowKey(r)
        /\ store' = store \cup {r}
    /\ UNCHANGED <<now, req, resp>>

Tick ==
    /\ Idle
    /\ now < MaxNow
    /\ now' = now + 1
    /\ UNCHANGED <<store, req, resp>>

SportEventsRequest(sport_keys) ==
    /\ Idle
    /\ \E sport_key \in sport_keys :
       \E rows \in EventsQuery(store, now, sport_key) :
        /\ req' = [op |-> "get_sport_events", sport_key |-> sport_key]
        /\ resp' = get_sport_events(sport_key, rows)
    /\ UNCHANGED <<store, now>>

EventDetailRequest(event_ids) ==
    /\ Idle
    /\ \E event_id \in event_ids :
       \E rows \in DetailQuery(store, event_id) :
        /\ req' = [op |-> "get_event_detail", event_id |-> event_id]
        /\ resp' = get_event_detail(event_id, rows)
    /\ UNCHANGED <<store, now>>

\* hours: None when the request does not give it.
HoursOf(hours) == IF hours = None THEN DefaultHours ELSE hours[1]

\* fetchone() of info_query.
InfoFetchOne(db, event_id) ==
    IF InfoQuery(db, event_id) = {} THEN {None}
    ELSE {Some(i) : i \in InfoQuery(db, event_id)}

EventHistoryRequest(event_ids, market_types, bookmakers, hourss) ==
    /\ Idle
    /\ \E event_id \in event_ids, market_type \in market_types,
          bookmaker \in bookmakers, hours \in hourss :
       \E info \in InfoFetchOne(store, event_id) :
       \E result \in HistoryExecute(store, now, event_id, bookmaker, HoursOf(hours)) :
        /\ req' = [ op |-> "get_event_history", event_id |-> event_id,
                    market_type |-> market_type, bookmaker |-> bookmaker,
                    hours |-> HoursOf(hours) ]
        /\ resp' = get_event_history(event_id, market_type, bookmaker, HoursOf(hours),
                                     info, result)
    /\ UNCHANGED <<store, now>>

IngestStore == Ingest(StoreRows)

GetSportEvents == SportEventsRequest({"afl", "nba", "nfl"})

GetEventDetail == EventDetailRequest({E1, E2, E3})

NextStore == IngestStore \/ Tick \/ GetSportEvents \/ GetEventDetail \/ Reply

SpecStore == Init /\ [][NextStore]_vars

IngestCompare == Ingest(CompareRows)

GetComparedDetail == EventDetailRequest({E1, E3})

NextCompare == IngestCompare \/ GetComparedDetail \/ Reply

SpecCompare == Init /\ [][NextCompare]_vars

IngestHistory == Ingest(HistoryStoreRows)

GetEventHistory ==
    EventHistoryRequest({E1, E2, E3}, MarketTypes \cup {"outrights"},
                        {None, Some(<< >>), Some(S_tab), Some(S_oneil)},
                        {None, Some(0), Some(1), Some(2)})

NextHistory == IngestHistory \/ Tick \/ GetEventHistory \/ Reply

SpecHistory == Init /\ [][NextHistory]_vars

(***************************************************************************)
(* C6: GET /api/events/{event_id} answers 404 exactly when the store holds *)
(* no row with that event id; GET /api/sports/{sport_key}/events never     *)
(* answers an error, and answers the empty list for a sport key no row     *)
(* carries.                                                                *)
(***************************************************************************)
C6_NotFoundVersusEmpty ==
    /\ req.op = "get_event_detail" =>
         /\ resp.status \in {200, 404}
         /\ resp.status = 404 <=> ~(\E o \in store : o.event_id = req.event_id)
    /\ req.op = "get_sport_events" =>
         /\ resp.status = 200
         /\ ~(\E o \in store : o.sport_key = req.sport_key) => resp.body = << >>

\* The event's only rows are of an older snapshot than the newest of the
\* table, and the detail was found.
C6_Witness ==
    /\ req.op = "get_event_detail"
    /\ resp.status = 200
    /\ \A o \in store : o.event_id = req.event_id => o.snapshot_at = 1
    /\ \E o \in store : o.event_id # req.event_id /\ o.snapshot_at = 2

(***************************************************************************)
(* C8: every BookmakerOdds of every Event of the event list carries, as    *)
(* last_update, the greatest snapshot_at among the rows of that sport.     *)
(***************************************************************************)
C8_OneSnapshotPerSport ==
    req.op = "get_sport_events" =>
        \A i \in 1..Len(resp.body) :
            \A k \in 1..Len(resp.body[i].bookmakers) :
                Some(resp.body[i].bookmakers[k].last_update)
                    = MaxSnapshot({o \in store : o.sport_key = req.sport_key})

\* An event was listed with its bookmaker although the table also holds an
\* older snapshot of that event under the same sport, and a row of another
\* sport.
C8_Witness ==
    /\ req.op = "get_sport_events"
    /\ Len(resp.body) = 1
    /\ \E o \in store : /\ o.sport_key = req.sport_key
                        /\ o.event_id = resp.body[1].event_id
                        /\ o.snapshot_at < resp.body[1].bookmakers[1].last_update
    /\ \E o \in store : o.sport_key # req.sport_key

\* The rows of the event at the event's latest snapshot that quote a
\* non-absent price in the given column.
C5_Quoted(column) ==
    { o \in store : /\ o.event_id = req.event_id
                    /\ \A p \in store : p.event_id = req.event_id
                                            => p.snapshot_at <= o.snapshot_at
                    /\ o[column] # None
                    /\ o[column][1] # 0 }

\* One side of odds_comparison as the claim states it; the average is held to
\* the order the claim draws from its being the mean.
C5_SideAsStated(side, column) ==
    LET quoted == C5_Quoted(column)
        prices == { o[column][1] : o \in quoted }
        stats  == resp.body.odds_comparison[side]
    IN  /\ side \in DOMAIN resp.body.odds_comparison <=> quoted # {}
        /\ quoted # {} =>
            /\ stats.best = FloatOfDecimal(CHOOSE p \in prices : \A q \in prices : q <= p)
            /\ stats.worst = FloatOfDecimal(CHOOSE p \in prices : \A q \in prices : p <= q)
            /\ FloatLeq(stats.worst, stats.average)
            /\ FloatLeq(stats.average, stats.best)

(***************************************************************************)
(* C5: in the detail of an event with a row at its latest snapshot,        *)
(* odds_comparison has the key h2h_home (h2h_away) exactly when some       *)
(* bookmaker row quotes a non-absent home (away) head-to-head price; its   *)
(* value is then the maximum (best), the minimum (worst) and the           *)
(* arithmetic mean (average) of those prices, so that                      *)
(* worst <= average <= best.                                               *)
(***************************************************************************)
C5_OddsComparison ==
    (req.op = "get_event_detail" /\ resp.status = 200) =>
        /\ C5_SideAsStated("h2h_home", "home_h2h_price")
        /\ C5_SideAsStated("h2h_away", "away_h2h_price")

\* The history request's window and filter keep no row of the event.
C7_NothingInside ==
    ~(\E o \in store : /\ o.event_id = req.event_id
                       /\ o.snapshot_at >= now - req.hours
                       /\ TruthyStr(req.bookmaker) => o.bookmaker_key = req.bookmaker[1])

(***************************************************************************)
(* C7: for a valid market_type and hours and any bookmaker filter, the     *)
(* history request answers 404 exactly when the store holds no row of the  *)
(* event id; when the event has rows but none inside the window and the    *)
(* filter, it answers 200 with the event's team names and an empty         *)
(* history.                                                                *)
(***************************************************************************)
C7_HistoryNotFoundVersusEmpty ==
    (req.op = "get_event_history" /\ HistoryParamsValid(req.market_type, req.hours)) =>
        /\ resp.status = 404 <=> ~(\E o \in store : o.event_id = req.event_id)
        /\ ((\E o \in store : o.event_id = req.event_id) /\ C7_NothingInside) =>
            /\ resp.status = 200
            /\ resp.body.history = << >>
            /\ \E o \in store : /\ o.event_id = req.event_id
                                /\ resp.body.home_team = o.home_team
                                /\ resp.body.away_team = o.away_team

(***************************************************************************)
(* Rows with zero-valued price and point columns                           *)
(***************************************************************************)

MaxQuoted == 2    \* columns of a row that are not NULL

\* What a non-NULL column holds: zero, or a price (a handicap or total for
\* the point columns, which may be negative).
QuotedValues(i) ==
    IF PriceColumns[i] \in {"home_spread_point", "away_spread_point",
                            "over_total_point", "under_total_point"}
    THEN {0, -5500}
    ELSE {0, 1900}

\* The ten price/point columns with at most MaxQuoted of them not NULL.
Quotes ==
    UNION { { [i \in 1..Len(PriceColumns) |-> IF i \in C THEN Some(f[i]) ELSE None] :
                f \in { f \in [C -> {0, 1900, -5500}] : \A i \in C : f[i] \in QuotedValues(i) } } :
            C \in { C \in SUBSET (1..Len(PriceColumns)) : Cardinality(C) <= MaxQuoted } }

\* One event at one snapshot: any quote by one bookmaker, and the
\* head-to-head prices absent, zero or quoted by another.
QuoteRows ==
    { Row(E1, "afl", "Cats", 2, S_tab, 1, q) : q \in Quotes }
    \cup { Row(E1, "afl", "Cats", 2, S_neds, 1, H2hQuote(home, away)) :
             home \in {None, Some(0), Some(1900)}, away \in {None, Some(0), Some(1900)} }

IngestQuotes == Ingest(QuoteRows)

GetQuotedEvents == SportEventsRequest({"afl"})

GetQuotedDetail == EventDetailRequest({E1})

GetQuotedHistory == EventHistoryRequest({E1}, MarketTypes, {None}, {None})

NextQuotes == IngestQuotes \/ GetQuotedEvents \/ GetQuotedDetail \/ GetQuotedHistory \/ Reply

SpecQuotes == Init /\ [][NextQuotes]_vars

\* The store with every zero price or point replaced by NULL.
C4_Nulled ==
    { [c \in DOMAIN o |->
         IF (\E i \in 1..Len(PriceColumns) : PriceColumns[i] = c) /\ o[c] = Some(0)
         THEN None ELSE o[c]] : o \in store }

\* The ten Optional floats of a BookmakerOdds.
C4_Fields(b) ==
    { b.h2h.home, b.h2h.away,
      b.spreads.home.price, b.spreads.home.point, b.spreads.away.price, b.spreads.away.point,
      b.totals.over.price, b.totals.over.point, b.totals.under.price, b.totals.under.point }

\* No float of the response is 0.0.
C4_NoZero ==
    /\ req.op = "get_sport_events" =>
         \A i \in 1..Len(resp.body) : \A k \in 1..Len(resp.body[i].bookmakers) :
             Some(FloatZero) \notin C4_Fields(resp.body[i].bookmakers[k])
    /\ (req.op = "get_event_detail" /\ resp.status = 200) =>
         /\ \A k \in 1..Len(resp.body.current_odds) :
              Some(FloatZero) \notin C4_Fields(resp.body.current_odds[k])
         /\ \A side \in DOMAIN resp.body.odds_comparison :
              LET stats == resp.body.odds_comparison[side]
              IN  FloatZero \notin {stats.best, stats.worst, stats.average}
    /\ (req.op = "get_event_history" /\ resp.status = 200) =>
         \A i \in 1..Len(resp.body.history) :
             \A v \in DOMAIN resp.body.history[i].values :
                 resp.body.history[i].values[v] # Some(FloatZero)

(***************************************************************************)
(* C4: a price or point column holding zero is treated exactly like a NULL *)
(* one: every response is a response the same request has from the store   *)
(* with each zero replaced by NULL (BookmakerOdds of the event list and of  *)
(* the detail, history values, odds_comparison), and no float of a          *)
(* response is 0.0.                                                         *)
(***************************************************************************)
C4_ZeroIsAbsent ==
    /\ C4_NoZero
    /\ req.op = "get_sport_events" =>
         \E rows \in EventsQuery(C4_Nulled, now, req.sport_key) :
             resp = get_sport_events(req.sport_key, rows)
    /\ req.op = "get_event_detail" =>
         \E rows \in DetailQuery(C4_Nulled, req.event_id) :
             resp = get_event_detail(req.event_id, rows)
    /\ req.op = "get_event_history" =>
         \E info \in InfoFetchOne(C4_Nulled, req.event_id) :
         \E result \in HistoryExecute(C4_Nulled, now, req.event_id, req.bookmaker, req.hours) :
             resp = get_event_history(req.event_id, req.market_type, req.bookmaker,
                                      req.hours, info, result)

\* One bookmaker quotes a zero home price and a zero handicap, the other a
\* home price of 1.90: the detail shows the former's fields absent and
\* compares the latter's price alone.
C4_Witness ==
    /\ req.op = "get_event_detail"
    /\ resp.status = 200
    /\ \E o \in store : /\ o.bookmaker_key = S_tab
                        /\ o.home_h2h_price = Some(0)
                        /\ o.home_spread_point = Some(0)
    /\ \E o \in store : o.bookmaker_key = S_neds /\ o.home_h2h_price = Some(1900)
    /\ resp.body.odds_comparison = [h2h_home |-> PriceStats(<<FloatOfDecimal(1900)>>)]
    /\ \E k \in 1..2 : /\ resp.body.current_odds[k].bookmaker_key = S_tab
                       /\ C4_Fields(resp.body.current_odds[k]) = {None}

(***************************************************************************)
(* routes_odds_table.py                                                    *)
(*                                                                         *)
(* A value of r.json() is a record tagged with its Python type: None, str  *)
(* (code points), int, float (a count of 1/DecimalUnit, as the digits of   *)
(* the JSON text give it), list (a sequence) or dict (a function from str  *)
(* keys).                                                                  *)
(***************************************************************************)

JNull == [t |-> "null"]
JStr(s) == [t |-> "str", s |-> s]
JInt(n) == [t |-> "int", n |-> n]
JFloat(d) == [t |-> "float", d |-> d]
JList(items) == [t |-> "list", items |-> items]
JDict(members) == [t |-> "dict", members |-> members]

K_key           == <<107, 101, 121>>    \* "key"
K_title         == <<116, 105, 116, 108, 101>>    \* "title"
K_markets       == <<109, 97, 114, 107, 101, 116, 115>>    \* "markets"
K_outcomes      == <<111, 117, 116, 99, 111, 109, 101, 115>>    \* "outcomes"
K_name          == <<110, 97, 109, 101>>    \* "name"
K_price         == <<112, 114, 105, 99, 101>>    \* "price"
K_point         == <<112, 111, 105, 110, 116>>    \* "point"
K_id            == <<105, 100>>    \* "id"
K_home_team     == <<104, 111, 109, 101, 95, 116, 101, 97, 109>>    \* "home_team"
K_away_team     == <<97, 119, 97, 121, 95, 116, 101, 97, 109>>    \* "away_team"
K_commence_time == <<99, 111, 109, 109, 101, 110, 99, 101, 95, 116, 105, 109, 101>>    \* "commence_time"
K_bookmakers    == <<98, 111, 111, 107, 109, 97, 107, 101, 114, 115>>    \* "bookmakers"

S_h2h     == <<104, 50, 104>>    \* "h2h"
S_spreads == <<115, 112, 114, 101, 97, 100, 115>>    \* "spreads"
S_totals  == <<116, 111, 116, 97, 108, 115>>    \* "totals"

\* bool(x)
IsTruthy(x) ==
    CASE x.t = "null"  -> FALSE
      [] x.t = "str"   -> x.s # << >>
      [] x.t = "int"   -> x.n # 0
      [] x.t = "float" -> x.d # 0
      [] x.t = "list"  -> x.items # << >>
      [] x.t = "dict"  -> DOMAIN x.members # {}

\* d.get(k, default)
JGet(d, k, default) == IF k \in DOMAIN d.members THEN d.members[k] ELSE default

\* The keys of a dict as a list.
RECURSIVE KeysOf(_)
KeysOf(members) ==
    IF DOMAIN members = {} THEN << >>
    ELSE LET k == CHOOSE k \in DOMAIN members : TRUE
         IN  <<JStr(k)>> \o KeysOf([j \in DOMAIN members \ {k} |-> members[j]])

\* `for x in xs`: the items of a list, the keys of a dict, the characters of
\* a str; None when xs is not iterable (TypeError).
Iter(xs) ==
    CASE xs.t = "list" -> Some(xs.items)
      [] xs.t = "dict" -> Some(KeysOf(xs.members))
      [] xs.t = "str"  -> Some([i \in 1..Len(xs.s) |-> JStr(<<xs.s[i]>>)])
      [] OTHER -> None

\* The decimal digits of n >= 0.
RECURSIVE Digits(_)
Digits(n) == IF n < 10 THEN <<48 + n>> ELSE Digits(n \div 10) \o <<48 + (n % 10)>>

\* str(n) of an int.
StrOfInt(n) == IF n < 0 THEN <<45>> \o Digits(-n) ELSE Digits(n)

\* The digits after the point of f/DecimalUnit, 0 <= f < DecimalUnit: no
\* trailing zero but the one of ".0".
RECURSIVE Fraction(_, _)
Fraction(f, unit) ==
    IF unit = 10 \/ f % (unit \div 10) = 0 THEN <<48 + f \div (unit \div 10)>>
    ELSE <<48 + f \div (unit \div 10)>> \o Fraction(f % (unit \div 10), unit \div 10)

\* str(x) of a float: the shortest decimal that reads back as x.
StrOfFloat(d) ==
    LET a == IF d < 0 THEN -d ELSE d
    IN  (IF d < 0 THEN <<45>> ELSE << >>)
        \o Digits(a \div DecimalUnit) \o <<46>> \o Fraction(a % DecimalUnit, DecimalUnit)

\* str(x) as an f-string renders a None, a str or a number.
Str(x) ==
    CASE x.t = "null"  -> <<78, 111, 110, 101>>
      [] x.t = "str"   -> x.s
      [] x.t = "int"   -> StrOfInt(x.n)
      [] x.t = "float" -> StrOfFloat(x.d)

\* sep.join(parts)
RECURSIVE Join(_, _)
Join(sep, parts) ==
    IF parts = << >> THEN << >>
    ELSE IF Len(parts) = 1 THEN parts[1]
    ELSE parts[1] \o sep \o Join(sep, Tail(parts))

\* `k in o` for a str k: a key of a dict, a substring of a str, an item of a
\* list; for any other o the test raises TypeError.
In(k, o) ==
    CASE o.t = "dict" -> k \in DOMAIN o.members
      [] o.t = "str"  -> \E i \in 0..(Len(o.s) - Len(k)) : SubSeq(o.s, i + 1, i + Len(k)) = k
      [] o.t = "list" -> \E i \in 1..Len(o.items) : o.items[i] = JStr(k)

\* _pick_market: Some(the first market whose "key" is key), Some(JNull) for
\* the None returned when there is none; None when the loop raises (markets
\* is not iterable, or an item before the match has no .get).
_pick_market(markets, key) ==
    IF Iter(markets) = None THEN None
    ELSE LET ms == Iter(markets)[1]
             hit(i) == ms[i].t # "dict" \/ JGet(ms[i], K_key, JNull) = JStr(key)
         IN  IF \E i \in 1..Len(ms) : hit(i)
             THEN LET first == CHOOSE i \in 1..Len(ms) : hit(i) /\ \A j \in 1..(i - 1) : ~hit(j)
                  IN  IF ms[first].t # "dict" THEN None ELSE Some(ms[first])
             ELSE Some(JNull)

\* The outcomes a formatter renders, in order: the items of
\* market.get("outcomes", []) that hold every one of the fields.  None when
\* anything inside the try raises: market is None, the outcomes are not
\* iterable, an item admits no `in`, or a str or list item passes the test
\* and is then indexed by a field name.
Outcomes(market, fields) ==
    IF market.t # "dict" THEN None
    ELSE LET outs == JGet(market, K_outcomes, JList(<< >>)) IN
         IF Iter(outs) = None THEN None
         ELSE LET os == Iter(outs)[1]
                  raises(o) == \/ o.t \notin {"dict", "str", "list"}
                               \/ o.t # "dict" /\ \A k \in fields : In(k, o)
                  kept == {i \in 1..Len(os) : \A k \in fields : In(k, os[i])}
                  pick[n \in 0..Len(os)] ==
                      IF n = 0 THEN << >>
                      ELSE IF n \in kept THEN Append(pick[n - 1], os[n]) ELSE pick[n - 1]
              IN  IF \E i \in 1..Len(os) : raises(os[i]) THEN None
                  ELSE Some(pick[Len(os)])

S_sep == <<32, 47, 32>>    \* " / "

\* "<name>: <price>" joined by " / "
_format_h2h(market) ==
    LET outs == Outcomes(market, {K_name, K_price})
    IN  IF outs = None THEN << >>
        ELSE Join(S_sep, [i \in 1..Len(outs[1]) |->
                 Str(outs[1][i].members[K_name]) \o <<58, 32>> \o Str(outs[1][i].members[K_price])])

\* "<name>(<point>): <price>" joined by " / "
_format_spreads(market) ==
    LET outs == Outcomes(market, {K_name, K_point, K_price})
    IN  IF outs = None THEN << >>
        ELSE Join(S_sep, [i \in 1..Len(outs[1]) |->
                 Str(outs[1][i].members[K_name]) \o <<40>> \o Str(outs[1][i].members[K_point])
                     \o <<41, 58, 32>> \o Str(outs[1][i].members[K_price])])

\* "<name> <point>: <price>" joined by " / "
_format_totals(market) ==
    LET outs == Outcomes(market, {K_name, K_point, K_price})
    IN  IF outs = None THEN << >>
        ELSE Join(S_sep, [i \in 1..Len(outs[1]) |->
                 Str(outs[1][i].members[K_name]) \o <<32>> \o Str(outs[1][i].members[K_point])
                     \o <<58, 32>> \o Str(outs[1][i].members[K_price])])

\* bm.get("key") and bm.get("title") as get_bookmaker_meta takes them: a str,
\* or a falsy value, which it treats as it treats None.
MetaArg(x) == IF x.t = "str" THEN Some(x.s) ELSE None

\* A truthy key that is no str has no .strip (normalize_key raises); a truthy
\* title that is no str becomes the name when the key has no canonical name,
\* and has no .lower when the rows are sorted.
MetaRaises(bm) ==
    LET key   == JGet(bm, K_key, JNull)
        title == JGet(bm, K_title, JNull)
    IN  \/ key.t # "str" /\ IsTruthy(key)
        \/ /\ title.t # "str" /\ IsTruthy(title)
           /\ normalize_key(MetaArg(key)) \notin DOMAIN CANONICAL_NAME

\* The body of `for bm in ev.get("bookmakers", [])` raises.
RowRaises(bm) ==
    \/ bm.t # "dict"
    \/ MetaRaises(bm)
    \/ \E key \in {S_h2h, S_spreads, S_totals} :
           _pick_market(JGet(bm, K_markets, JList(<< >>)), key) = None

\* The row of a bookmaker entry.
BuildRow(match_label, start, bm) ==
    LET meta == get_bookmaker_meta(MetaArg(JGet(bm, K_key, JNull)),
                                   MetaArg(JGet(bm, K_title, JNull)))
        bm_markets == JGet(bm, K_markets, JList(<< >>))
    IN  [ bookmaker     |-> meta.name,
          bookmaker_url |-> meta.url,
          match         |-> match_label,
          start         |-> start,
          h2h           |-> _format_h2h(_pick_market(bm_markets, S_h2h)[1]),
          spreads       |-> _format_spreads(_pick_market(bm_markets, S_spreads)[1]),
          totals        |-> _format_totals(_pick_market(bm_markets, S_totals)[1]) ]

\* A slip: the names are compared as they are written.
SortKey_case_sensitive(row) == row.bookmaker

\* key=lambda r: (r["bookmaker"] or "").lower()
SortKey(row) == Lower(row.bookmaker)

SortLess(a, b) == StrLess(SortKey(a), SortKey(b))

\* f"{ev.get('home_team','?')} vs {ev.get('away_team','?')}"
MatchLabel(ev) ==
    Str(JGet(ev, K_home_team, JStr(<<63>>))) \o <<32, 118, 115, 32>> \o Str(JGet(ev, K_away_team, JStr(<<63>>)))

\* The rows of an event before rows.sort, in the order of its bookmakers.
BuiltRows(ev) ==
    LET bms == Iter(JGet(ev, K_bookmakers, JList(<< >>)))[1]
    IN  [i \in 1..Len(bms) |->
            BuildRow(MatchLabel(ev), JGet(ev, K_commence_time, JStr(<< >>)), bms[i])]

\* The body of `for ev in events` raises.
EventRaises(ev) ==
    \/ ev.t # "dict"
    \/ Iter(JGet(ev, K_bookmakers, JList(<< >>))) = None
    \/ LET bms == Iter(JGet(ev, K_bookmakers, JList(<< >>)))[1]
       IN  \E i \in 1..Len(bms) : RowRaises(bms[i])

\* The entry of matches for an event.
Match(ev) ==
    [ id    |-> JGet(ev, K_id, JNull),
      match |-> MatchLabel(ev),
      start |-> JGet(ev, K_commence_time, JStr(<< >>)),
      rows  |-> StableSort(BuiltRows(ev), SortLess) ]

columns == <<"bookmaker", "match", "h2h", "spreads", "totals", "start", "bookmaker_url">>

HexDigit(n) == IF n < 10 THEN 48 + n ELSE 87 + n

\* A character inside a JSON string as json.dumps(ensure_ascii=False) writes
\* it.
JsonEscape(c) ==
    CASE c = 34 -> <<92, 34>>
      [] c = 92 -> <<92, 92>>
      [] c = 10 -> <<92, 110>>
      [] c = 13 -> <<92, 114>>
      [] c = 9  -> <<92, 116>>
      [] c = 8  -> <<92, 98>>
      [] c = 12 -> <<92, 102>>
      [] c < 32 /\ c \notin {8, 9, 10, 12, 13} ->
             <<92, 117, 48, 48, HexDigit(c \div 16), HexDigit(c % 16)>>
      [] OTHER -> <<c>>

\* A slip: the text is put between the quotes as it is.
JsonString_unescaped(s) == <<34>> \o s \o <<34>>

\* json.dumps of a str.
JsonString(s) == <<34>> \o Join(<< >>, [i \in 1..Len(s) |-> JsonEscape(s[i])]) \o <<34>>

\* JSONResponse({"error": r.text}, status_code=r.status_code): the content,
\* and the body rendered from it with separators (",", ":").
ErrorResponse(status_code, text) ==
    [ status  |-> status_code,
      content |-> [error |-> text],
      body    |-> <<123>> \o JsonString(<<101, 114, 114, 111, 114>>) \o <<58>> \o JsonString(text) \o <<125>> ]

\* An exception no handler catches: the server's own 500.
InternalServerError == [status |-> 500, body |-> <<73, 110, 116, 101, 114, 110, 97, 108, 32, 83, 101, 114, 118, 101, 114, 32, 69, 114, 114, 111, 114>>]

\* odds_table, given what client.get(url, params=params) came to: a response
\* r (for a 200, r.json is Some(the parsed body), or None when the body is no
\* JSON), or a transport error.
odds_table(r) ==
    IF ~r.ok THEN InternalServerError
    ELSE IF r.status_code # 200 THEN ErrorResponse(r.status_code, r.text)
    ELSE IF r.json = None THEN InternalServerError
    ELSE IF Iter(r.json[1]) = None THEN InternalServerError
    ELSE LET events == Iter(r.json[1])[1] IN
         IF \E i \in 1..Len(events) : EventRaises(events[i]) THEN InternalServerError
         ELSE [ status  |-> 200,
                content |-> [ columns |-> columns,
                              matches |-> [i \in 1..Len(events) |-> Match(events[i])] ] ]

(***************************************************************************)
(* What the upstream provider answers, and the requests for the table      *)
(***************************************************************************)

MaxBookmakers == 3    \* bookmaker entries of an event

S_Cats  == <<67, 97, 116, 115>>
S_Swans == <<83, 119, 97, 110, 115>>
S_Zed   == <<90, 101, 100>>
S_ZED   == <<90, 69, 68>>
S_alpha == <<97, 108, 112, 104, 97>>
S_zeta  == <<122, 101, 116, 97>>

\* h2h: "Cats: 1.9 / Swans: 2"
M_h2h ==
    JDict((K_key :> JStr(S_h2h))
       @@ (K_outcomes :> JList(<<
              JDict((K_name :> JStr(S_Cats)) @@ (K_price :> JFloat(1900))),
              JDict((K_name :> JStr(S_Swans)) @@ (K_price :> JInt(2))) >>)))

\* spreads: "Cats(-5.5): 1.91"; the second outcome has no point.
M_spreads ==
    JDict((K_key :> JStr(S_spreads))
       @@ (K_outcomes :> JList(<<
              JDict((K_name :> JStr(S_Cats)) @@ (K_point :> JFloat(-5500))
                    @@ (K_price :> JFloat(1910))),
              JDict((K_name :> JStr(S_Swans)) @@ (K_price :> JFloat(1910))) >>)))

\* totals: "Over 160.5: 1.87"
M_totals ==
    JDict((K_key :> JStr(S_totals))
       @@ (K_outcomes :> JList(<<
              JDict((K_name :> JStr(<<79, 118, 101, 114>>)) @@ (K_point :> JFloat(160500))
                    @@ (K_price :> JFloat(1870))) >>)))

\* Bookmaker entries: known keys with and without a title, unknown keys named
\* by their title ("Zed", "ZED") or by themselves ("alpha"), an entry with
\* nothing in it, and a padded upper-case alias with a null title.
BookmakerEntries ==
    { JDict((K_key :> JStr(S_tab)) @@ (K_title :> JStr(S_TAB))
            @@ (K_markets :> JList(<<M_h2h>>))),
      JDict((K_key :> JStr(S_neds)) @@ (K_markets :> JList(<<M_spreads, M_h2h>>))),
      JDict((K_key :> JStr(S_unknownkey)) @@ (K_title :> JStr(S_Zed))
            @@ (K_markets :> JList(<< >>))),
      JDict((K_key :> JStr(S_zeta)) @@ (K_title :> JStr(S_ZED))),
      JDict((K_key :> JStr(S_alpha))),
      JDict(<< >>),
      JDict((K_key :> JStr(<<32, 84, 65, 66, 32>>)) @@ (K_title :> JNull)
            @@ (K_markets :> JList(<<M_totals>>))) }

UpstreamEvent(bookmakers) ==
    JDict((K_id :> JStr(<<101, 49>>))
       @@ (K_home_team :> JStr(S_Cats)) @@ (K_away_team :> JStr(S_Swans))
       @@ (K_commence_time :> JStr(<<50, 48, 50, 53, 45, 48, 56, 45, 48, 49, 84, 48, 57, 58, 51, 48, 58, 48, 48, 90>>))
       @@ (K_bookmakers :> JList(bookmakers)))

\* The bodies of a 200: event lists, and bodies that are no event list.
UpstreamBodies ==
    { JList(<<UpstreamEvent(bms)>>) :
        bms \in UNION {[1..n -> BookmakerEntries] : n \in 0..MaxBookmakers} }
    \cup { JList(<<JDict(<< >>), UpstreamEvent(<<b>>)>>) : b \in BookmakerEntries }
    \cup { JList(<< >>), JNull, JDict((K_title :> JStr(S_SomeTitle))) }

UpstreamStatuses == {204, 401, 404, 429, 500}

\* "", "Unauthorized", {"message":"bad key"}, and a\b followed by a newline
UpstreamTexts ==
    { << >>, <<85, 110, 97, 117, 116, 104, 111, 114, 105, 122, 101, 100>>, <<123, 34, 109, 101, 115, 115, 97, 103, 101, 34, 58, 34, 98, 97, 100, 32, 107, 101, 121, 34, 125>>, <<97, 92, 98, 10>> }

UpstreamResponses ==
    { [ok |-> TRUE, status_code |-> 200, json |-> Some(body)] : body \in UpstreamBodies }
    \cup { [ok |-> TRUE, status_code |-> 200, json |-> None] }
    \cup { [ok |-> TRUE, status_code |-> s, text |-> text] :
             s \in UpstreamStatuses, text \in UpstreamTexts }
    \cup { [ok |-> FALSE, error |-> "ReadTimeout"] }

\* GET /api/odds_table: r is what the upstream call came to.
OddsTable ==
    /\ Idle
    /\ \E r \in UpstreamResponses :
        /\ req' = [op |-> "odds_table", r |-> r]
        /\ resp' = odds_table(r)
    /\ UNCHANGED <<store, now>>

NextTable == OddsTable \/ Reply

SpecTable == Init /\ [][NextTable]_vars

\* The text a JSON string literal stands for, given what is between its
\* quotes; None when that is no JSON.
RECURSIVE C9_Unescape(_)
C9_Unescape(s) ==
    LET simple == (34 :> 34) @@ (92 :> 92) @@ (47 :> 47) @@ (110 :> 10) @@ (114 :> 13)
                  @@ (116 :> 9) @@ (98 :> 8) @@ (102 :> 12)
        hex(c) == IF c \in 48..57 THEN c - 48 ELSE IF c \in 97..102 THEN c - 87 ELSE -1
        then(c, rest) == LET r == C9_Unescape(rest)
                         IN  IF r = None THEN None ELSE Some(<<c>> \o r[1])
    IN  IF s = << >> THEN Some(<< >>)
        ELSE IF s[1] = 34 \/ s[1] < 32 THEN None
        ELSE IF s[1] # 92 THEN then(s[1], Tail(s))
        ELSE IF Len(s) < 2 THEN None
        ELSE IF s[2] \in DOMAIN simple THEN then(simple[s[2]], SubSeq(s, 3, Len(s)))
        ELSE IF s[2] = 117 /\ Len(s) >= 6 /\ \A i \in 3..6 : hex(s[i]) >= 0
             THEN then(((hex(s[3]) * 16 + hex(s[4])) * 16 + hex(s[5])) * 16 + hex(s[6]),
                       SubSeq(s, 7, Len(s)))
        ELSE None

\* The body is the JSON text of an object whose one member, "error", is the
\* given text.
C9_IsErrorObject(body, text) ==
    /\ Len(body) >= 12
    /\ SubSeq(body, 1, 10) = <<123, 34, 101, 114, 114, 111, 114, 34, 58, 34>>
    /\ SubSeq(body, Len(body) - 1, Len(body)) = <<34, 125>>
    /\ C9_Unescape(SubSeq(body, 11, Len(body) - 2)) = Some(text)

C10_RowsSortedStable ==
    (req.op = "odds_table" /\ resp.status = 200) =>
        LET events == req.r.json[1].items IN
        /\ Len(resp.content.matches) = Len(events)
        /\ \A e \in 1..Len(events) :
            LET built == BuiltRows(events[e])
                rows  == resp.content.matches[e].rows
                n     == Len(built)
            IN  /\ Len(rows) = n
                /\ \A j, k \in 1..n :
                       j < k => ~StrLess(Lower(rows[k].bookmaker), Lower(rows[j].bookmaker))
                /\ \E p \in [1..n -> 1..n] :
                    /\ \A j, k \in 1..n : j # k => p[j] # p[k]
                    /\ \A j \in 1..n : rows[j] = built[p[j]]
                    /\ \A j, k \in 1..n :
                           (j < k /\ Lower(rows[j].bookmaker) = Lower(rows[k].bookmaker))
                               => p[j] < p[k]

\* The upstream listed "Zed", "alpha", "ZED": the table has "alpha" first and
\* "Zed" before "ZED".
C10_Witness ==
    /\ req.op = "odds_table"
    /\ resp.status = 200
    /\ Len(resp.content.matches) = 1
    /\ LET built == BuiltRows(req.r.json[1].items[1])
           rows  == resp.content.matches[1].rows
       IN  /\ Len(built) = 3
           /\ <<built[1].bookmaker, built[2].bookmaker, built[3].bookmaker>>
                  = <<S_Zed, S_alpha, S_ZED>>
           /\ <<rows[1].bookmaker, rows[2].bookmaker, rows[3].bookmaker>>
                  = <<S_alpha, S_Zed, S_ZED>>

(***************************************************************************)
(* C11: whatever requests came before and however the clock advanced,      *)
(* every Event of the event list has is_live equal to                      *)
(* (commence_time <= the time of the request).                             *)
(***************************************************************************)
C11_IsLiveOfThisRequest ==
    req.op = "get_sport_events" =>
        \A i \in 1..Len(resp.body) :
            resp.body[i].is_live = (resp.body[i].commence_time <= now)

\* The clock has advanced to the commence time of one event of the sport's
\* latest snapshot: the list holds the other event, not live, and no longer
\* the one that has commenced.
C11_Witness ==
    /\ req.op = "get_sport_events"
    /\ now = 2
    /\ \E o \in store : /\ o.sport_key = req.sport_key
                        /\ o.event_id = E1
                        /\ o.commence_time <= now
                        /\ Some(o.snapshot_at) = SportLatestSnapshot(store, req.sport_key)
    /\ Len(resp.body) = 1
    /\ resp.body[1].event_id = E2
    /\ resp.body[1].commence_time = 3
    /\ resp.body[1].is_live = FALSE

(***************************************************************************)
(* The aggregation of get_sport_events over any sequence of result rows    *)
(***************************************************************************)

MaxFetched == 3    \* rows of a result

\* Result rows of the events query: two events, rows that may disagree on the
\* teams and the commence time of an event, two bookmakers.
FetchedRows ==
    { << event_id, Some(teams[1]), Some(teams[2]), commence_time,
         bookmaker_key, None, 1,
         Some(1900), None, None, None, None, None, None, None, None, None, 0 >> :
        event_id \in {E1, E2}, teams \in {<<"Cats", "Swans">>, <<"Lions", "Giants">>},
        commence_time \in {2, 3}, bookmaker_key \in {S_neds, S_tab} }

\* get_sport_events from `if not rows` on, for rows in any order.
Aggregate ==
    /\ Idle
    /\ \E rows \in UNION {[1..n -> FetchedRows] : n \in 0..MaxFetched} :
        /\ req' = [op |-> "aggregate", sport_key |-> "afl", rows |-> rows]
        /\ resp' = get_sport_events("afl", rows)
    /\ UNCHANGED <<store, now>>

NextAggregate == Aggregate \/ Reply

SpecAggregate == Init /\ [][NextAggregate]_vars

\* The indices of the rows of an event, ascending.
C12_RowsOf(rows, event_id) ==
    LET of == {i \in 1..Len(rows) : Col(rows[i], 0) = event_id}
        nth[k \in 1..Cardinality(of)] ==
            CHOOSE i \in of : Cardinality({j \in of : j <= i}) = k
    IN  nth

(***************************************************************************)
(* C12: for every sequence of result rows, the event list holds exactly    *)
(* one Event per distinct event id; its home_team, away_team and           *)
(* commence_time are those of the first row of that id; its bookmakers are *)
(* one entry per row of that id, in row order; and the events are in       *)
(* ascending order of commence_time.                                       *)
(***************************************************************************)
C12_GroupedByFirstRow ==
    req.op = "aggregate" =>
        LET rows == req.rows
            ids  == {Col(rows[i], 0) : i \in 1..Len(rows)}
        IN  /\ resp.status = 200
            /\ Len(resp.body) = Cardinality(ids)
            /\ \A id \in ids : \E i \in 1..Len(resp.body) : resp.body[i].event_id = id
            /\ \A i \in 1..Len(resp.body) :
                LET ev  == resp.body[i]
                    own == C12_RowsOf(rows, ev.event_id)
                IN  /\ Len(own) >= 1
                    /\ ev.home_team = Col(rows[own[1]], 1)
                    /\ ev.away_team = Col(rows[own[1]], 2)
                    /\ ev.commence_time = Col(rows[own[1]], 3)
                    /\ Len(ev.bookmakers) = Len(own)
                    /\ \A k \in 1..Len(own) :
                           ev.bookmakers[k] =
                               BookmakerOdds(Col(rows[own[k]], 4), Col(rows[own[k]], 5),
                                             Col(rows[own[k]], 6), SubSeq(rows[own[k]], 8, 17))
            /\ \A i, j \in 1..Len(resp.body) :
                   i < j => resp.body[i].commence_time <= resp.body[j].commence_time

\* Two rows of E1 that disagree on the home team and the commence time, with
\* a row of E2 between them: E2 comes first, E1 keeps what its first row said
\* and has both bookmakers in row order.
C12_Witness ==
    /\ req.op = "aggregate"
    /\ Len(req.rows) = 3
    /\ <<Col(req.rows[1], 0), Col(req.rows[2], 0), Col(req.rows[3], 0)>> = <<E1, E2, E1>>
    /\ <<Col(req.rows[1], 1), Col(req.rows[3], 1)>> = <<Some("Lions"), Some("Cats")>>
    /\ <<Col(req.rows[1], 3), Col(req.rows[2], 3), Col(req.rows[3], 3)>> = <<3, 2, 2>>
    /\ <<Col(req.rows[1], 4), Col(req.rows[3], 4)>> = <<S_tab, S_neds>>
    /\ Len(resp.body) = 2
    /\ resp.body[1].event_id = E2
    /\ resp.body[2].event_id = E1
    /\ resp.body[2].home_team = Some("Lions")
    /\ resp.body[2].commence_time = 3
    /\ <<resp.body[2].bookmakers[1].bookmaker_key, resp.body[2].bookmakers[2].bookmaker_key>>
           = <<S_tab, S_neds>>

(***************************************************************************)
(* Upstream bookmaker entries with malformed or missing market data        *)
(***************************************************************************)

MaxMarkets == 2    \* items of a markets list

\* Items of a markets list: a good h2h market, null, a str, and h2h markets
\* without outcomes, with null outcomes, and with outcomes that hold a null,
\* a str, or an outcome without a price before a good one.
MarketItems ==
    LET good    == JDict((K_name :> JStr(S_Cats)) @@ (K_price :> JFloat(1900)))
        h2h(os) == JDict((K_key :> JStr(S_h2h)) @@ (K_outcomes :> os))
    IN  { M_h2h, JNull, JStr(S_h2h),
          JDict((K_key :> JStr(S_h2h))),
          h2h(JNull),
          h2h(JList(<<JNull, good>>)),
          h2h(JList(<<JStr(S_h2h), good>>)),
          h2h(JList(<<JDict((K_name :> JStr(S_Swans))), good>>)) }

\* The bookmaker entries: markets absent, null, no list, or a list of items.
MalformedEntries ==
    { JDict((K_key :> JStr(S_tab))) }
    \cup { JDict((K_key :> JStr(S_tab)) @@ (K_markets :> markets)) :
             markets \in {JNull, JStr(S_h2h), JInt(5), JDict((S_h2h :> M_h2h))}
                         \cup {JList(ms) : ms \in UNION {[1..n -> MarketItems] :
                                                           n \in 0..MaxMarkets}} }

\* GET /api/odds_table when the upstream answers 200 with one event whose
\* bookmaker entries are a good one and one of MalformedEntries.
OddsTableOfMalformed ==
    /\ Idle
    /\ \E b \in MalformedEntries, good \in BookmakerEntries :
       LET r == [ ok |-> TRUE, status_code |-> 200,
                  json |-> Some(JList(<<UpstreamEvent(<<good, b>>)>>)) ]
       IN  /\ req' = [op |-> "odds_table", r |-> r]
           /\ resp' = odds_table(r)
    /\ UNCHANGED <<store, now>>

NextMalformed == OddsTableOfMalformed \/ Reply

SpecMalformed == Init /\ [][NextMalformed]_vars

\* The strings a column may hold by the claim: the empty string, or the
\* well-formed outcomes of a well-formed market of that key, formatted.
C13_Allowed(bm, key, fields) ==
    LET markets == JGet(bm, K_markets, JList(<< >>))
        items   == IF markets.t = "list" THEN markets.items ELSE << >>
        wellFormed(m) ==
            LET outs == JGet(m, K_outcomes, JList(<< >>))
                os   == IF outs.t = "list" THEN outs.items ELSE << >>
            IN  JDict((K_key :> JStr(key))
                   @@ (K_outcomes :> JList(SelectSeq(os,
                          LAMBDA o : o.t = "dict" /\ \A k \in fields : k \in DOMAIN o.members))))
    IN  { << >> }
        \cup { IF key = S_h2h THEN _format_h2h(wellFormed(items[i]))
               ELSE IF key = S_spreads THEN _format_spreads(wellFormed(items[i]))
               ELSE _format_totals(wellFormed(items[i])) :
               i \in { i \in 1..Len(items) :
                         items[i].t = "dict" /\ JGet(items[i], K_key, JNull) = JStr(key) } }

(***************************************************************************)
(* C13: whatever is malformed or missing in the market data of a bookmaker *)
(* entry, the request does not fail, and the h2h, spreads and totals       *)
(* columns of the entry's row are each the formatted string of the         *)
(* well-formed outcomes or the empty string.                               *)
(***************************************************************************)
C13_MalformedMarketsDegrade ==
    req.op = "odds_table" =>
        /\ resp.status = 200
        /\ LET bms == req.r.json[1].items[1].members[K_bookmakers].items IN
           \A i \in 1..Len(bms) :
               \E j \in 1..Len(resp.content.matches[1].rows) :
                   LET row == resp.content.matches[1].rows[j]
                   IN  /\ row.h2h \in C13_Allowed(bms[i], S_h2h, {K_name, K_price})
                       /\ row.spreads \in C13_Allowed(bms[i], S_spreads,
                                                      {K_name, K_point, K_price})
                       /\ row.totals \in C13_Allowed(bms[i], S_totals,
                                                     {K_name, K_point, K_price})

(***************************************************************************)
(* main.py: the sports menu and the bookmaker list                         *)
(***************************************************************************)

\* The sport keys of the rows in ascending order, for ORDER BY o.sport_key.
SportKeyOrder == <<"afl", "australianfootball_afl", "nba", "nfl">>

SportKeyRank(k) == CHOOSE i \in 1..Len(SportKeyOrder) : SportKeyOrder[i] = k

sport_names ==
    ("australianfootball_afl" :> "Australian Football AFL")
    @@ ("soccer_epl" :> "English Premier League")
    @@ ("basketball_nba" :> "NBA Basketball")

\* SELECT DISTINCT o.sport_key, COALESCE(ce.event_count, 0): for every sport
\* key of the table the number of distinct events with a row of that sport
\* in the latest snapshot of the whole table that have not yet commenced.
SportsRows(db, clock) ==
    { << k, Cardinality({ o.event_id : o \in { o \in db :
                              /\ o.sport_key = k
                              /\ Some(o.snapshot_at) = MaxSnapshot(db)
                              /\ o.commence_time >= clock } }) >> :
        k \in {o.sport_key : o \in db} }

\* ORDER BY o.sport_key
SportsOrder(a, b) == SportKeyRank(Col(a, 0)) < SportKeyRank(Col(b, 0))

SportsQuery(db, clock) == OrderBy(SportsRows(db, clock), SportsOrder)

\* get_sports, from the fetched rows on (`row[1] or 0` of a count is the
\* count).
get_sports(rows) ==
    [ status |-> 200,
      body   |-> [ i \in 1..Len(rows) |->
                     [ sport_key   |-> Col(rows[i], 0),
                       sport_name  |-> IF Col(rows[i], 0) \in DOMAIN sport_names
                                       THEN sport_names[Col(rows[i], 0)]
                                       ELSE Col(rows[i], 0),
                       event_count |-> IF Col(rows[i], 1) # 0 THEN Col(rows[i], 1) ELSE 0 ] ] ]

\* SELECT DISTINCT bookmaker_key, bookmaker_title WHERE bookmaker_title IS
\* NOT NULL
BookmakersRows(db) ==
    { <<o.bookmaker_key, o.bookmaker_title[1]>> :
        o \in {o \in db : o.bookmaker_title # None} }

\* ORDER BY bookmaker_key
BookmakersOrder(a, b) == StrLess(Col(a, 0), Col(b, 0))

BookmakersQuery(db) == OrderBy(BookmakersRows(db), BookmakersOrder)

\* get_all_bookmakers, from the fetched rows on.
get_all_bookmakers(rows) ==
    [ status |-> 200,
      body   |-> [ bookmakers |-> [ i \in 1..Len(rows) |->
                                      [ key   |-> Col(rows[i], 0),
                                        title |-> Col(rows[i], 1) ] ],
                   total      |-> Len(rows) ] ]

(***************************************************************************)
(* main.py: the handlers when the data store fails                         *)
(***************************************************************************)

\* get_db_connection(): pyodbc.connect returns a connection or raises.
get_db_connection ==
    { [ok |-> TRUE, error |-> ""], [ok |-> FALSE, error |-> "Login timeout expired"] }

\* cursor.execute(...) and the fetch: one of the results, or an error raised.
Execute(results) ==
    { [ok |-> TRUE, rows |-> r] : r \in results }
    \cup { [ok |-> FALSE, error |-> "Communication link failure"] }

\* The frame of every store-backed handler.  `conn = get_db_connection()`
\* stands before `try:`, so what it raises leaves the handler and the server
\* answers with its own 500; what a query raises inside `try:` is caught and
\* raised again as HTTPException(500, detail=str(e)); response is what the
\* body of `try:` comes to otherwise, an HTTPException it raises included.
StoreBacked(conn, result, response) ==
    IF ~conn.ok THEN InternalServerError
    ELSE IF ~result.ok THEN [status |-> 500, detail |-> result.error]
    ELSE response

\* The message of the store's failure during the request, None without one.
StoreError(conn, result) ==
    IF ~conn.ok THEN Some(conn.error)
    ELSE IF ~result.ok THEN Some(result.error)
    ELSE None

StoreGetSports ==
    /\ Idle
    /\ \E conn \in get_db_connection :
       \E result \in Execute(SportsQuery(store, now)) :
        /\ req' = [op |-> "get_sports", error |-> StoreError(conn, result)]
        /\ resp' = StoreBacked(conn, result, get_sports(result.rows))
    /\ UNCHANGED <<store, now>>

StoreGetSportEvents ==
    /\ Idle
    /\ \E sport_key \in {"afl", "nba", "nfl"} :
       \E conn \in get_db_connection :
       \E result \in Execute(EventsQuery(store, now, sport_key)) :
        /\ req' = [ op |-> "get_sport_events", sport_key |-> sport_key,
                    error |-> StoreError(conn, result) ]
        /\ resp' = StoreBacked(conn, result, get_sport_events(sport_key, result.rows))
    /\ UNCHANGED <<store, now>>

StoreGetEventDetail ==
    /\ Idle
    /\ \E event_id \in {E1, E2, E3} :
       \E conn \in get_db_connection :
       \E result \in Execute(DetailQuery(store, event_id)) :
        /\ req' = [ op |-> "get_event_detail", event_id |-> event_id,
                    error |-> StoreError(conn, result) ]
        /\ resp' = StoreBacked(conn, result, get_event_detail(event_id, result.rows))
    /\ UNCHANGED <<store, now>>

\* The parameters are validated before the handler runs; the history query
\* is executed only when info_query has found the event.
StoreGetEventHistory ==
    /\ Idle
    /\ \E event_id \in {E1, E3}, market_type \in {"h2h", "outrights"},
          bookmaker \in {None, Some(S_tab)} :
       \E conn \in get_db_connection :
       \E info \in Execute(InfoFetchOne(store, event_id)) :
       \E result \in HistoryExecute(store, now, event_id, bookmaker, DefaultHours)
                        \cup Execute({}) :
       LET valid  == HistoryParamsValid(market_type, DefaultHours)
           reached == valid /\ conn.ok /\ info.ok /\ info.rows # None
       IN  /\ req' = [ op |-> "get_event_history", event_id |-> event_id,
                       market_type |-> market_type, bookmaker |-> bookmaker,
                       hours |-> DefaultHours,
                       error |-> IF ~valid THEN None
                                 ELSE IF reached THEN StoreError(conn, result)
                                 ELSE StoreError(conn, info) ]
           /\ resp' = IF ~valid
                      THEN get_event_history(event_id, market_type, bookmaker,
                                             DefaultHours, None, result)
                      ELSE StoreBacked(conn, info,
                               get_event_history(event_id, market_type, bookmaker,
                                                 DefaultHours, info.rows, result))
    /\ UNCHANGED <<store, now>>

StoreGetAllBookmakers ==
    /\ Idle
    /\ \E conn \in get_db_connection :
       \E result \in Execute(BookmakersQuery(store)) :
        /\ req' = [op |-> "get_all_bookmakers", error |-> StoreError(conn, result)]
        /\ resp' = StoreBacked(conn, result, get_all_bookmakers(result.rows))
    /\ UNCHANGED <<store, now>>

NextFailing ==
    \/ IngestStore \/ Tick
    \/ StoreGetSports \/ StoreGetSportEvents \/ StoreGetEventDetail
    \/ StoreGetEventHistory \/ StoreGetAllBookmakers
    \/ Reply

SpecFailing == Init /\ [][NextFailing]_vars

StoreOps ==
    {"get_sports", "get_sport_events", "get_event_detail", "get_event_history",
     "get_all_bookmakers"}

\* A query that fails gives 500 with the message of the error as detail.
C14_QueryFailure ==
    req.op \in StoreOps /\ req.error = Some("Communication link failure")
        => resp = [status |-> 500, detail |-> "Communication link failure"]

\* An event without a row gives 404 when the store does not fail.
C14_NotFound ==
    /\ req.op \in {"get_event_detail", "get_event_history"}
    /\ req.error = None
    /\ req.op = "get_event_history" => req.market_type \in MarketTypes
    /\ \A o \in store : o.event_id # req.event_id
    => resp = [status |-> 404, detail |-> "Event not found"]

(***************************************************************************)
(* C14: on each of the five store-backed endpoints a failure of the data   *)
(* store during the request, in opening the connection or in executing a   *)
(* query, is answered by 500 with the message of the error as detail, and  *)
(* a 404 raised inside the handler is answered as 404.                     *)
(***************************************************************************)
C14_StoreFailureIs500WithMessage ==
    /\ req.op \in StoreOps /\ req.error # None
           => resp = [status |-> 500, detail |-> req.error[1]]
    /\ C14_NotFound

=============================================================================
